---------------------------- MODULE Spec2Model ----------------------------
(***************************************************************************)
(* A model of crates/webidl/src/idl_type.rs: the canonical IDL type        *)
(* (IdlType), the resolution of parsed type expressions against the first  *)
(* pass record (ToIdlType), the descriptive names (push_type_name), the    *)
(* mapping to syn types (to_syn_type), the flattening of unions            *)
(* (IdlType::flatten) and the expansion of an argument list (flatten).     *)
(*                                                                         *)
(* All of these are pure functions.  Each is an operator computed the way  *)
(* the code computes it; the state machine calls one of them on an input   *)
(* drawn from a bounded universe, records the input and the returned       *)
(* value, and returns to the idle state.                                   *)
(***************************************************************************)
EXTENDS Integers, Sequences, FiniteSets

VARIABLES
    op,         \* the function being called: "idle" when none is
    recv,       \* the IdlType a method is called on (its self)
    arglist,    \* the &[(IdlType, bool)] given to flatten
    expr,       \* the parsed type expression given to to_idl_type
    symtab,     \* the FirstPassRecord given to to_idl_type
    position,   \* the TypePosition given to to_syn_type
    ret         \* the value returned

vars == <<op, recv, arglist, expr, symtab, position, ret>>

-----------------------------------------------------------------------------
(* Bounds of the model.                                                    *)

\* The longest member list of a union of the generated universe.
MaxUnion == 2

\* The longest argument list of the generated universe.
MaxArgs == 3

\* The depth of nested to_idl_type calls at which the stack is exhausted.
MaxStack == 12

-----------------------------------------------------------------------------
(* enum IdlType.  A value is a record: its variant (tag), the &str of a    *)
(* named variant (name, a sequence of characters; empty otherwise) and the *)
(* boxed inner types or the Vec of a union (args).                         *)

NoName == <<>>

Leaf(tag) == [tag |-> tag, name |-> NoName, args |-> <<>>]

Boolean == Leaf("Boolean")
Byte == Leaf("Byte")
Octet == Leaf("Octet")
Short == Leaf("Short")
UnsignedShort == Leaf("UnsignedShort")
Long == Leaf("Long")
UnsignedLong == Leaf("UnsignedLong")
LongLong == Leaf("LongLong")
UnsignedLongLong == Leaf("UnsignedLongLong")
Float == Leaf("Float")
UnrestrictedFloat == Leaf("UnrestrictedFloat")
Double == Leaf("Double")
UnrestrictedDouble == Leaf("UnrestrictedDouble")
DomString == Leaf("DomString")
ByteString == Leaf("ByteString")
UsvString == Leaf("UsvString")
Object == Leaf("Object")
Symbol == Leaf("Symbol")
Error == Leaf("Error")
ArrayBuffer == Leaf("ArrayBuffer")
DataView == Leaf("DataView")
Int8Array == Leaf("Int8Array")
Uint8Array == Leaf("Uint8Array")
Uint8ClampedArray == Leaf("Uint8ClampedArray")
Int16Array == Leaf("Int16Array")
Uint16Array == Leaf("Uint16Array")
Int32Array == Leaf("Int32Array")
Uint32Array == Leaf("Uint32Array")
Float32Array == Leaf("Float32Array")
Float64Array == Leaf("Float64Array")
Any == Leaf("Any")
Void == Leaf("Void")

Interface(name) == [tag |-> "Interface", name |-> name, args |-> <<>>]
Dictionary(name) == [tag |-> "Dictionary", name |-> name, args |-> <<>>]
Enum(name) == [tag |-> "Enum", name |-> name, args |-> <<>>]

Nullable(t) == [tag |-> "Nullable", name |-> NoName, args |-> <<t>>]
FrozenArray(t) == [tag |-> "FrozenArray", name |-> NoName, args |-> <<t>>]
Sequence(t) == [tag |-> "Sequence", name |-> NoName, args |-> <<t>>]
Promise(t) == [tag |-> "Promise", name |-> NoName, args |-> <<t>>]
Record(from, to) == [tag |-> "Record", name |-> NoName, args |-> <<from, to>>]
Union(idl_types) == [tag |-> "Union", name |-> NoName, args |-> idl_types]

\* The variants without a payload.
PlainLeaves ==
    { Boolean, Byte, Octet, Short, UnsignedShort, Long, UnsignedLong, LongLong,
      UnsignedLongLong, Float, UnrestrictedFloat, Double, UnrestrictedDouble,
      DomString, ByteString, UsvString, Object, Symbol, Error,
      ArrayBuffer, DataView, Int8Array, Uint8Array, Uint8ClampedArray,
      Int16Array, Uint16Array, Int32Array, Uint32Array, Float32Array,
      Float64Array, Any, Void }

\* The variants that box exactly one inner type.
WrapperTags == {"Nullable", "FrozenArray", "Sequence", "Promise"}

Wrap(tag, t) == [tag |-> tag, name |-> NoName, args |-> <<t>>]

-----------------------------------------------------------------------------
(* IdlType::flatten.                                                       *)

\* flatten_wrapper with every boxed alternative collected twice.
flatten_wrapper_doubled(tag, inner) ==
    [i \in 1..(2 * Len(inner)) |-> Wrap(tag, inner[((i - 1) \div 2) + 1])]

\* flatten_wrapper with the alternatives collected in the opposite order.
flatten_wrapper_reversed(tag, inner) ==
    [i \in 1..Len(inner) |-> Wrap(tag, inner[Len(inner) - i + 1])]

\* Nullable / FrozenArray / Sequence / Promise: the flattened inner types,
\* each boxed again in the same variant (into_iter().map(Box::new).map(V)).
flatten_wrapper(tag, inner) ==
    [i \in 1..Len(inner) |-> Wrap(tag, inner[i])]

\* flatten_record with the two loops exchanged: the value varies slowest.
flatten_record_value_major(from, to) ==
    [i \in 1..(Len(from) * Len(to)) |->
        Record(from[((i - 1) % Len(from)) + 1], to[((i - 1) \div Len(from)) + 1])]

\* Record: the two nested for loops pushing Record(from, to), the loop over
\* the flattened key outside.
flatten_record(from, to) ==
    [i \in 1..(Len(from) * Len(to)) |->
        Record(from[((i - 1) \div Len(to)) + 1], to[((i - 1) % Len(to)) + 1])]

\* flatten_union with the members taken from the last to the first.
RECURSIVE flatten_union_reversed(_)
flatten_union_reversed(flats) ==
    IF flats = <<>> THEN <<>>
    ELSE flatten_union_reversed(Tail(flats)) \o Head(flats)

\* Union: flat_map over the members, that is the concatenation of the
\* members' flattened lists in the order of the members.
RECURSIVE flatten_union(_)
flatten_union(flats) ==
    IF flats = <<>> THEN <<>>
    ELSE Head(flats) \o flatten_union(Tail(flats))

\* IdlType::flatten without the arms of the generic variants: only the
\* unions that are not inside a generic are flattened (the flattened union
\* member types of WebIDL).
RECURSIVE IdlType_flatten_shallow(_)
IdlType_flatten_shallow(idl_type) ==
    IF idl_type.tag = "Union"
    THEN flatten_union([i \in 1..Len(idl_type.args) |->
                           IdlType_flatten_shallow(idl_type.args[i])])
    ELSE <<idl_type>>

RECURSIVE IdlType_flatten(_)
IdlType_flatten(idl_type) ==
    CASE idl_type.tag \in WrapperTags ->
            flatten_wrapper(idl_type.tag, IdlType_flatten(idl_type.args[1]))
      [] idl_type.tag = "Record" ->
            flatten_record(IdlType_flatten(idl_type.args[1]),
                           IdlType_flatten(idl_type.args[2]))
      [] idl_type.tag = "Union" ->
            flatten_union([i \in 1..Len(idl_type.args) |->
                              IdlType_flatten(idl_type.args[i])])
      [] OTHER -> <<idl_type>>

-----------------------------------------------------------------------------
(* fn flatten(arguments: &[(IdlType, bool)]) -> Vec<Vec<IdlType>>.  An     *)
(* argument is the pair <<idl type, optional>>: argument[1] is the code's  *)
(* argument.0 and argument[2] its argument.1.                              *)

\* optional_possibilities_init without the test of arguments[0].1.
optional_possibilities_init_empty(arguments) == <<>>

\* let mut optional_possibilities =
\*     if arguments[0].1 { vec![Vec::new()] } else { Vec::new() };
optional_possibilities_init(arguments) ==
    IF arguments[1][2] THEN << <<>> >> ELSE <<>>

\* for idl_type in arguments[0].0.flatten() { possibilities.push(vec![idl_type]) }
possibilities_init(arguments) ==
    LET first == IdlType_flatten(arguments[1][1])
    IN  [i \in 1..Len(first) |-> <<first[i]>>]

\* The body of `for old_idl_types in possibilities`, for one old_idl_types:
\* the state is the pair of optional_possibilities and new_possibilities.
extend_possibility(argument, old_idl_types, st) ==
    LET flat == IdlType_flatten(argument[1])
    IN  [optional_possibilities |->
             IF argument[2]
             THEN Append(st.optional_possibilities, old_idl_types)
             ELSE st.optional_possibilities,
         new_possibilities |->
             st.new_possibilities \o
                 [k \in 1..Len(flat) |-> Append(old_idl_types, flat[k])]]

\* for old_idl_types in possibilities { ... }, from the i-th one on.
RECURSIVE for_possibilities(_, _, _, _)
for_possibilities(argument, possibilities, i, st) ==
    IF i > Len(possibilities) THEN st
    ELSE for_possibilities(argument, possibilities, i + 1,
                           extend_possibility(argument, possibilities[i], st))

\* for argument in arguments[1..].iter() { ... }, from the j-th argument on
\* (j counts from 1, so the loop starts at j = 2).
RECURSIVE for_arguments(_, _, _, _)
for_arguments(arguments, j, optional_possibilities, possibilities) ==
    IF j > Len(arguments)
    THEN [optional_possibilities |-> optional_possibilities,
          possibilities |-> possibilities]
    ELSE LET st == for_possibilities(arguments[j], possibilities, 1,
                       [optional_possibilities |-> optional_possibilities,
                        new_possibilities |-> <<>>])
         IN  for_arguments(arguments, j + 1,
                           st.optional_possibilities, st.new_possibilities)

\* extend with the receiver and the argument exchanged.
extend_complete_first(optional_possibilities, possibilities) ==
    possibilities \o optional_possibilities

\* optional_possibilities.extend(possibilities.into_iter())
extend(optional_possibilities, possibilities) ==
    optional_possibilities \o possibilities

flatten(arguments) ==
    IF arguments = <<>> THEN << <<>> >>
    ELSE LET end == for_arguments(arguments, 2,
                        optional_possibilities_init(arguments),
                        possibilities_init(arguments))
         IN  extend(end.optional_possibilities, end.possibilities)

-----------------------------------------------------------------------------
(* str::to_snake_case of the heck crate, on a name given as its sequence   *)
(* of characters.  The name is split at the characters that are not        *)
(* alphanumeric, each piece is split into words where a lower case letter  *)
(* is followed by an upper case one and before the last letter of a run of *)
(* upper case letters that a lower case letter follows, and the words are  *)
(* written in lower case with "_" between them.                            *)

UpperChars == {"E", "H", "L", "M", "N", "R", "X"}
LowerChars == {"d", "e", "h", "i", "l", "m", "n", "o", "p", "q", "r", "s", "t", "u", "v", "x"}

to_lowercase(c) ==
    CASE c = "E" -> "e" [] c = "H" -> "h" [] c = "L" -> "l" [] c = "M" -> "m"
      [] c = "N" -> "n" [] c = "R" -> "r" [] c = "X" -> "x" [] OTHER -> c

is_alphanumeric(c) == c \in UpperChars \cup LowerChars

\* The words of one alphanumeric piece, scanned from its i-th character:
\* init is where the current word starts, mode the case of the characters of
\* the current word read so far, out the words found.
RECURSIVE word_boundaries(_, _, _, _, _)
word_boundaries(word, i, init, mode, out) ==
    IF i > Len(word) THEN out
    ELSE IF i = Len(word) THEN Append(out, SubSeq(word, init, Len(word)))
    ELSE LET c == word[i]
             next == word[i + 1]
             next_mode == IF c \in LowerChars THEN "Lowercase"
                          ELSE IF c \in UpperChars THEN "Uppercase"
                          ELSE mode
         IN  IF next_mode = "Lowercase" /\ next \in UpperChars
             THEN word_boundaries(word, i + 1, i + 1, "Boundary",
                                  Append(out, SubSeq(word, init, i)))
             ELSE IF mode = "Uppercase" /\ c \in UpperChars /\ next \in LowerChars
             THEN word_boundaries(word, i + 1, i, "Boundary",
                                  Append(out, SubSeq(word, init, i - 1)))
             ELSE word_boundaries(word, i + 1, init, next_mode, out)

\* s.split(|c| !c.is_alphanumeric()): the pieces of s from its i-th
\* character on, piece being the characters of the current piece.
RECURSIVE split(_, _, _)
split(s, i, piece) ==
    IF i > Len(s) THEN <<piece>>
    ELSE IF is_alphanumeric(s[i]) THEN split(s, i + 1, Append(piece, s[i]))
    ELSE <<piece>> \o split(s, i + 1, <<>>)

\* The words of all the pieces, in order.
RECURSIVE words_of(_)
words_of(pieces) ==
    IF pieces = <<>> THEN <<>>
    ELSE word_boundaries(Head(pieces), 1, 1, "Boundary", <<>>)
             \o words_of(Tail(pieces))

\* The characters of a word, in lower case, as a string.
RECURSIVE lowercase_str(_)
lowercase_str(word) ==
    IF word = <<>> THEN ""
    ELSE to_lowercase(Head(word)) \o lowercase_str(Tail(word))

\* The words in lower case, "_" between them.
RECURSIVE join_snake(_)
join_snake(words) ==
    IF words = <<>> THEN ""
    ELSE IF Len(words) = 1 THEN lowercase_str(words[1])
    ELSE lowercase_str(words[1]) \o "_" \o join_snake(Tail(words))

to_snake_case(name) == join_snake(words_of(split(name, 1, <<>>)))

-----------------------------------------------------------------------------
(* IdlType::push_type_name and IdlType::get_type_name.  dst is the String  *)
(* written to; push_type_name gives the String after the call.             *)

\* The table of the variants that push one fixed str.
leaf_type_name(tag) ==
    CASE tag = "Boolean" -> "bool"
      [] tag = "Byte" -> "i8"
      [] tag = "Octet" -> "u8"
      [] tag = "Short" -> "i16"
      [] tag = "UnsignedShort" -> "u16"
      [] tag = "Long" -> "i32"
      [] tag = "UnsignedLong" -> "u32"
      [] tag = "LongLong" -> "i64"
      [] tag = "UnsignedLongLong" -> "u64"
      [] tag = "Float" -> "f32"
      [] tag = "UnrestrictedFloat" -> "unrestricted_f32"
      [] tag = "Double" -> "f64"
      [] tag = "UnrestrictedDouble" -> "unrestricted_f64"
      [] tag = "DomString" -> "dom_str"
      [] tag = "ByteString" -> "byte_str"
      [] tag = "UsvString" -> "usv_str"
      [] tag = "Object" -> "object"
      [] tag = "Symbol" -> "symbol"
      [] tag = "Error" -> "error"
      [] tag = "ArrayBuffer" -> "array_buffer"
      [] tag = "DataView" -> "data_view"
      [] tag = "Int8Array" -> "i8_array"
      [] tag = "Uint8Array" -> "u8_array"
      [] tag = "Uint8ClampedArray" -> "u8_clamped_array"
      [] tag = "Int16Array" -> "i16_array"
      [] tag = "Uint16Array" -> "u16_array"
      [] tag = "Int32Array" -> "i32_array"
      [] tag = "Uint32Array" -> "u32_array"
      [] tag = "Float32Array" -> "f32_array"
      [] tag = "Float64Array" -> "f64_array"
      [] tag = "Any" -> "any"
      [] tag = "Void" -> "void"

RECURSIVE push_type_name(_, _)

\* The loop of the Union arm over idl_types, from the i-th member on.
RECURSIVE push_union_members(_, _, _)
push_union_members(idl_types, i, dst) ==
    IF i > Len(idl_types) THEN dst
    ELSE push_union_members(idl_types, i + 1,
             push_type_name(idl_types[i],
                            IF i = 1 THEN dst ELSE dst \o "_and_"))

push_type_name(idl_type, dst) ==
    CASE idl_type.tag \in {"Interface", "Dictionary", "Enum"} ->
            dst \o to_snake_case(idl_type.name)
      [] idl_type.tag = "Nullable" ->
            push_type_name(idl_type.args[1], dst \o "opt_")
      [] idl_type.tag = "FrozenArray" ->
            push_type_name(idl_type.args[1], dst) \o "_frozen_array"
      [] idl_type.tag = "Sequence" ->
            push_type_name(idl_type.args[1], dst) \o "_sequence"
      [] idl_type.tag = "Promise" ->
            push_type_name(idl_type.args[1], dst) \o "_promise"
      [] idl_type.tag = "Record" ->
            push_type_name(idl_type.args[2],
                push_type_name(idl_type.args[1], dst \o "record_from_") \o "_to_")
      [] idl_type.tag = "Union" ->
            push_union_members(idl_type.args, 1, dst \o "union_of_")
      [] OTHER -> dst \o leaf_type_name(idl_type.tag)

get_type_name(idl_type) == push_type_name(idl_type, "")

-----------------------------------------------------------------------------
(* syn::Type, as far as the helpers of backend::util and util build it: a  *)
(* value is a record of the form of the type, the identifiers of its path  *)
(* and the types inside it.                                                *)

SynType(form, path, inner) == [form |-> form, path |-> path, inner |-> inner]

\* Option<syn::Type>.
SomeTy(ty) == [kind |-> "Some", value |-> ty]
NoneTy == [kind |-> "None", value |-> SynType("", <<>>, <<>>)]

\* raw_ident(name): the identifier name as it is written.
raw_ident(name) == name

\* rust_ident(name): the identifier name, with "_" appended when name is a
\* keyword of Rust.
RustKeywords == {"as", "fn", "move", "ref", "self", "type", "use"}
rust_ident(name) == IF name \in RustKeywords THEN name \o "_" ELSE name

\* ident_ty(ident): the type that is the path of the single identifier.
ident_ty(ident) == SynType("path", <<ident>>, <<>>)

\* leading_colon_path_ty(path): the type ::a::b.
leading_colon_path_ty(path) == SynType("leading_colon_path", path, <<>>)

\* shared_ref(ty): &ty.
shared_ref(ty) == SynType("shared_ref", <<>>, <<ty>>)

\* option_ty(ty): Option<ty>.
option_ty(ty) == SynType("option", <<>>, <<ty>>)

\* array(base_ty, pos): a borrowed slice of base_ty in argument position,
\* an owned Vec of base_ty in return position.
array(base_ty, pos) ==
    IF pos = "Argument"
    THEN shared_ref(SynType("slice", <<>>, <<ident_ty(raw_ident(base_ty))>>))
    ELSE SynType("vec", <<>>, <<ident_ty(raw_ident(base_ty))>>)

\* The characters of a word as a string, the first one in upper case and
\* the others in lower case.
to_uppercase(c) ==
    CASE c = "e" -> "E" [] c = "h" -> "H" [] c = "l" -> "L" [] c = "m" -> "M"
      [] c = "n" -> "N" [] c = "r" -> "R" [] c = "x" -> "X" [] OTHER -> c

capitalized_str(word) ==
    IF word = <<>> THEN ""
    ELSE to_uppercase(to_lowercase(Head(word))) \o lowercase_str(Tail(word))

RECURSIVE join_camel(_)
join_camel(words) ==
    IF words = <<>> THEN ""
    ELSE capitalized_str(Head(words)) \o join_camel(Tail(words))

\* camel_case_ident(name): the words of name, capitalized and joined.
camel_case_ident(name) == join_camel(words_of(split(name, 1, <<>>)))

TypePositions == {"Argument", "Return"}

\* The Nullable arm with the ? left out: the Option of the inner type is
\* wrapped whatever it is.
to_syn_type_nullable_unchecked(inner) == SomeTy(option_ty(inner.value))

\* The Nullable arm: Some(option_ty(idl_type.to_syn_type(pos)?)), given
\* what idl_type.to_syn_type(pos) returned.
to_syn_type_nullable(inner) ==
    IF inner.kind = "None" THEN NoneTy ELSE SomeTy(option_ty(inner.value))

RECURSIVE to_syn_type(_, _)
to_syn_type(idl_type, pos) ==
    LET tag == idl_type.tag
    IN  CASE tag = "Boolean" -> SomeTy(ident_ty(raw_ident("bool")))
          [] tag = "Byte" -> SomeTy(ident_ty(raw_ident("i8")))
          [] tag = "Octet" -> SomeTy(ident_ty(raw_ident("u8")))
          [] tag = "Short" -> SomeTy(ident_ty(raw_ident("i16")))
          [] tag = "UnsignedShort" -> SomeTy(ident_ty(raw_ident("u16")))
          [] tag = "Long" -> SomeTy(ident_ty(raw_ident("i32")))
          [] tag = "UnsignedLong" -> SomeTy(ident_ty(raw_ident("u32")))
          [] tag = "LongLong" -> SomeTy(ident_ty(raw_ident("i64")))
          [] tag = "UnsignedLongLong" -> SomeTy(ident_ty(raw_ident("u64")))
          [] tag = "Float" -> SomeTy(ident_ty(raw_ident("f32")))
          [] tag = "UnrestrictedFloat" -> SomeTy(ident_ty(raw_ident("f32")))
          [] tag = "Double" -> SomeTy(ident_ty(raw_ident("f64")))
          [] tag = "UnrestrictedDouble" -> SomeTy(ident_ty(raw_ident("f64")))
          [] tag \in {"DomString", "ByteString", "UsvString"} ->
                IF pos = "Argument"
                THEN SomeTy(shared_ref(ident_ty(raw_ident("str"))))
                ELSE SomeTy(ident_ty(raw_ident("String")))
          [] tag = "Object" ->
                SomeTy(leading_colon_path_ty(
                    <<rust_ident("js_sys"), rust_ident("Object")>>))
          [] tag = "Symbol" -> NoneTy
          [] tag = "Error" -> NoneTy
          [] tag = "ArrayBuffer" ->
                SomeTy(leading_colon_path_ty(
                    <<rust_ident("js_sys"), rust_ident("ArrayBuffer")>>))
          [] tag = "DataView" -> NoneTy
          [] tag = "Int8Array" -> SomeTy(array("i8", pos))
          [] tag = "Uint8Array" -> SomeTy(array("u8", pos))
          [] tag = "Uint8ClampedArray" -> SomeTy(array("u8", pos))
          [] tag = "Int16Array" -> SomeTy(array("i16", pos))
          [] tag = "Uint16Array" -> SomeTy(array("u16", pos))
          [] tag = "Int32Array" -> SomeTy(array("i32", pos))
          [] tag = "Uint32Array" -> SomeTy(array("u32", pos))
          [] tag = "Float32Array" -> SomeTy(array("f32", pos))
          [] tag = "Float64Array" -> SomeTy(array("f64", pos))
          [] tag = "Interface" ->
                LET ty == ident_ty(rust_ident(camel_case_ident(idl_type.name)))
                IN  IF pos = "Argument" THEN SomeTy(shared_ref(ty)) ELSE SomeTy(ty)
          [] tag = "Dictionary" ->
                SomeTy(ident_ty(rust_ident(camel_case_ident(idl_type.name))))
          [] tag = "Enum" ->
                SomeTy(ident_ty(rust_ident(camel_case_ident(idl_type.name))))
          [] tag = "Nullable" ->
                to_syn_type_nullable(to_syn_type(idl_type.args[1], pos))
          [] tag = "FrozenArray" -> NoneTy
          [] tag = "Sequence" -> NoneTy
          [] tag = "Promise" -> NoneTy
          [] tag = "Record" -> NoneTy
          [] tag = "Union" -> NoneTy
          [] tag = "Any" ->
                SomeTy(leading_colon_path_ty(
                    <<rust_ident("wasm_bindgen"), rust_ident("JsValue")>>))
          [] tag = "Void" -> NoneTy

-----------------------------------------------------------------------------
(* Option<T>.  The third outcome of a call is that it does not return: the *)
(* nested calls exhaust the stack and the process is aborted.              *)

Some(v) == [kind |-> "Some", value |-> v]
None == [kind |-> "None", value |-> Void]
StackOverflow == [kind |-> "Abort", value |-> Void]

-----------------------------------------------------------------------------
(* The parsed type expressions of weedle and trait ToIdlType.  A node is a *)
(* record: the type that implements to_idl_type (kind), the &str of an     *)
(* Identifier (name), whether the optional keyword or mark of the node is  *)
(* present (flag: q_mark of MayBeNull, unsigned of the integer types,      *)
(* unrestricted of the floating point types) and the nodes it holds        *)
(* (body).  The enums whose to_idl_type only calls the to_idl_type of      *)
(* their variant (Type, SingleType, NonAnyType, IntegerType,               *)
(* FloatingPointType, StringType, UnionMemberType, ConstType, ReturnType)  *)
(* and AttributedType are the kind "Type".                                 *)

Node(kind, name, flag, body) ==
    [kind |-> kind, name |-> name, flag |-> flag, body |-> body]

Term(kind) == Node(kind, NoName, FALSE, <<>>)
Identifier(name) == Node("Identifier", name, FALSE, <<>>)
MayBeNull(type_, q_mark) == Node("MayBeNull", NoName, q_mark, <<type_>>)
LongLongType(unsigned) == Node("LongLongType", NoName, unsigned, <<>>)
LongType(unsigned) == Node("LongType", NoName, unsigned, <<>>)
ShortType(unsigned) == Node("ShortType", NoName, unsigned, <<>>)
FloatType(unrestricted) == Node("FloatType", NoName, unrestricted, <<>>)
DoubleType(unrestricted) == Node("DoubleType", NoName, unrestricted, <<>>)
SequenceType(t) == Node("SequenceType", NoName, FALSE, <<t>>)
FrozenArrayType(t) == Node("FrozenArrayType", NoName, FALSE, <<t>>)
PromiseType(t) == Node("PromiseType", NoName, FALSE, <<t>>)
RecordType(k, v) == Node("RecordType", NoName, FALSE, <<k, v>>)
UnionType(list) == Node("UnionType", NoName, FALSE, list)
Type(t) == Node("Type", NoName, FALSE, <<t>>)

\* terms_to_idl_type!: the IdlType variant of each weedle term.
terms_to_idl_type(term) ==
    CASE term = "Symbol" -> Symbol
      [] term = "ByteString" -> ByteString
      [] term = "DOMString" -> DomString
      [] term = "USVString" -> UsvString
      [] term = "Any" -> Any
      [] term = "Boolean" -> Boolean
      [] term = "Byte" -> Byte
      [] term = "Double" -> Double
      [] term = "Float" -> Float
      [] term = "Long" -> Long
      [] term = "Object" -> Object
      [] term = "Octet" -> Octet
      [] term = "Short" -> Short
      [] term = "Void" -> Void
      [] term = "ArrayBuffer" -> ArrayBuffer
      [] term = "DataView" -> DataView
      [] term = "Int8Array" -> Int8Array
      [] term = "Int16Array" -> Int16Array
      [] term = "Int32Array" -> Int32Array
      [] term = "Uint8Array" -> Uint8Array
      [] term = "Uint16Array" -> Uint16Array
      [] term = "Uint32Array" -> Uint32Array
      [] term = "Uint8ClampedArray" -> Uint8ClampedArray
      [] term = "Float32Array" -> Float32Array
      [] term = "Float64Array" -> Float64Array
      [] term = "Error" -> Error

Terms ==
    { "Symbol", "ByteString", "DOMString", "USVString", "Any", "Boolean", "Byte",
      "Double", "Float", "Long", "Object", "Octet", "Short", "Void",
      "ArrayBuffer", "DataView", "Int8Array", "Int16Array", "Int32Array",
      "Uint8Array", "Uint16Array", "Uint32Array", "Uint8ClampedArray",
      "Float32Array", "Float64Array", "Error" }

\* to_idl_type(self, record) called when depth calls are already on the
\* stack.
RECURSIVE to_idl_type(_, _, _)

\* The ? operator on the Option a nested call gives: f is applied to the
\* value of Some, None is returned as it is, and so is the abort.
Wrapped(tag, inner) ==
    IF inner.kind = "Some" THEN Some(Wrap(tag, inner.value)) ELSE inner

\* impl ToIdlType for Identifier, with the interfaces looked up before the
\* typedefs.
Identifier_to_idl_type_interface_first(self, record, depth) ==
    IF self.name \in record.interfaces THEN Some(Interface(self.name))
    ELSE IF self.name \in DOMAIN record.typedefs
    THEN to_idl_type(record.typedefs[self.name], record, depth + 1)
    ELSE IF self.name \in record.dictionaries THEN Some(Dictionary(self.name))
    ELSE IF self.name \in record.enums THEN Some(Enum(self.name))
    ELSE None

\* impl ToIdlType for Identifier.
Identifier_to_idl_type(self, record, depth) ==
    IF self.name \in DOMAIN record.typedefs
    THEN to_idl_type(record.typedefs[self.name], record, depth + 1)
    ELSE IF self.name \in record.interfaces THEN Some(Interface(self.name))
    ELSE IF self.name \in record.dictionaries THEN Some(Dictionary(self.name))
    ELSE IF self.name \in record.enums THEN Some(Enum(self.name))
    ELSE None

\* impl ToIdlType for UnionType: the loop over self.body.list from its i-th
\* member on, idl_types being the Vec pushed to so far.
RECURSIVE UnionType_to_idl_type(_, _, _, _, _)
UnionType_to_idl_type(list, i, idl_types, record, depth) ==
    IF i > Len(list) THEN Some(Union(idl_types))
    ELSE LET t == to_idl_type(list[i], record, depth + 1)
         IN  IF t.kind = "Some"
             THEN UnionType_to_idl_type(list, i + 1, Append(idl_types, t.value),
                                        record, depth)
             ELSE t

\* impl ToIdlType for RecordType: the key, then the value.
RecordType_to_idl_type(self, record, depth) ==
    LET from == to_idl_type(self.body[1], record, depth + 1)
    IN  IF from.kind # "Some" THEN from
        ELSE LET to == to_idl_type(self.body[2], record, depth + 1)
             IN  IF to.kind # "Some" THEN to
                 ELSE Some(Record(from.value, to.value))

\* impl ToIdlType for MayBeNull<T>.
MayBeNull_to_idl_type(self, record, depth) ==
    LET inner_idl_type == to_idl_type(self.body[1], record, depth + 1)
    IN  IF inner_idl_type.kind # "Some" THEN inner_idl_type
        ELSE IF self.flag THEN Some(Nullable(inner_idl_type.value))
        ELSE Some(inner_idl_type.value)

to_idl_type(self, record, depth) ==
    IF depth > MaxStack THEN StackOverflow
    ELSE CASE self.kind = "Identifier" -> Identifier_to_idl_type(self, record, depth)
           [] self.kind = "UnionType" ->
                 UnionType_to_idl_type(self.body, 1, <<>>, record, depth)
           [] self.kind = "RecordType" -> RecordType_to_idl_type(self, record, depth)
           [] self.kind = "MayBeNull" -> MayBeNull_to_idl_type(self, record, depth)
           [] self.kind = "SequenceType" ->
                 Wrapped("Sequence", to_idl_type(self.body[1], record, depth + 1))
           [] self.kind = "FrozenArrayType" ->
                 Wrapped("FrozenArray", to_idl_type(self.body[1], record, depth + 1))
           [] self.kind = "PromiseType" ->
                 Wrapped("Promise", to_idl_type(self.body[1], record, depth + 1))
           [] self.kind = "Type" -> to_idl_type(self.body[1], record, depth + 1)
           [] self.kind = "LongLongType" ->
                 IF self.flag THEN Some(UnsignedLongLong) ELSE Some(LongLong)
           [] self.kind = "LongType" ->
                 IF self.flag THEN Some(UnsignedLong) ELSE Some(Long)
           [] self.kind = "ShortType" ->
                 IF self.flag THEN Some(UnsignedShort) ELSE Some(Short)
           [] self.kind = "FloatType" ->
                 IF self.flag THEN Some(UnrestrictedFloat) ELSE Some(Float)
           [] self.kind = "DoubleType" ->
                 IF self.flag THEN Some(UnrestrictedDouble) ELSE Some(Double)
           [] OTHER -> Some(terms_to_idl_type(self.kind))

-----------------------------------------------------------------------------
(* The inputs of the model.                                                *)

\* The sequences over S of length at most n.
SeqsUpTo(S, n) == UNION {[1..k -> S] : k \in 0..n}

\* One more level of structure over the types of S.
Level(S) ==
    S \cup {Wrap(w, t) : w \in WrapperTags, t \in S}
      \cup {Record(k, v) : k \in S, v \in S}
      \cup {Union(m) : m \in SeqsUpTo(S, MaxUnion)}

FlatLeaves == {Short, Long}

\* The union of idl_type_flatten_test.
NodeName == <<"N", "o", "d", "e">>
EventName == <<"E", "v", "e", "n", "t">>
XMLHttpRequestName ==
    <<"X", "M", "L", "H", "t", "t", "p", "R", "e", "q", "u", "e", "s", "t">>
NodeListName == <<"N", "o", "d", "e", "L", "i", "s", "t">>

TestUnion ==
    Union(<< Interface(NodeName),
             Union(<<Sequence(Long), Interface(EventName)>>),
             Nullable(Union(<<Interface(XMLHttpRequestName), DomString>>)),
             Sequence(Union(<<Sequence(Double), Interface(NodeListName)>>)) >>)

\* The argument list of arguments_flatten_test.
TestArguments ==
    << <<Union(<<Short, Long>>), FALSE>>,
       <<Union(<<Sequence(Union(<<Byte, Octet>>)), LongLong>>), TRUE>>,
       <<DomString, TRUE>> >>

FlattenTypes ==
    Level(Level(FlatLeaves))
        \cup PlainLeaves
        \cup {TestUnion, Record(Union(<<Short, Long>>), Union(<<Byte, Octet>>))}
        \cup {TestArguments[i][1] : i \in 1..Len(TestArguments)}

ArgTypes ==
    {Short, Union(<<Short, Long>>), Nullable(Union(<<Byte, Octet>>)), Union(<<>>)}

ArgLists ==
    SeqsUpTo(ArgTypes \X BOOLEAN, MaxArgs)
        \cup {TestArguments, <<TestArguments[1]>>}

\* "node_list", a name already in snake case.
NodeListSnakeName == <<"n", "o", "d", "e", "_", "l", "i", "s", "t">>

NamedLeaves ==
    {Interface(n) : n \in {NodeName, NodeListName, NodeListSnakeName, XMLHttpRequestName}}
        \cup {Dictionary(n) : n \in {NodeName, NodeListName}}
        \cup {Enum(n) : n \in {NodeName}}

NameTypes ==
    Level(Level({Long, Interface(NodeName)}))
        \cup PlainLeaves \cup NamedLeaves \cup {TestUnion}

\* The names the symbol tables define, and one they never define.
EventTargetName == <<"E", "v", "e", "n", "t", "T", "a", "r", "g", "e", "t">>
RecordNames == {NodeName, EventName}
UnknownName == EventTargetName

\* The right-hand sides of the typedefs: a primitive type, and types that
\* name a typedef, an interface, a dictionary or an enum, the typedef itself
\* included.
TypedefTypes ==
    { Type(LongType(TRUE)),
      Type(MayBeNull(Identifier(NodeName), FALSE)),
      Type(MayBeNull(Identifier(EventName), TRUE)),
      Type(SequenceType(Type(MayBeNull(Identifier(EventName), FALSE)))) }

\* record.typedefs maps a name to the type of its typedef; interfaces,
\* dictionaries and enums are sets of names (of interfaces only the keys are
\* read).
Records ==
    { [typedefs |-> td, interfaces |-> i, dictionaries |-> d, enums |-> e] :
        td \in UNION {[D -> TypedefTypes] : D \in SUBSET RecordNames},
        i \in SUBSET RecordNames,
        d \in SUBSET RecordNames,
        e \in SUBSET RecordNames }

\* The type expressions that name identifiers.
IdentifierNodes ==
    LET ids == {Identifier(n) : n \in RecordNames \cup {UnknownName}}
        single == ids \cup {MayBeNull(i, q) : i \in ids, q \in BOOLEAN}
    IN  single
          \cup {SequenceType(Identifier(NodeName)),
                FrozenArrayType(Identifier(NodeName)),
                PromiseType(MayBeNull(Identifier(EventName), TRUE)),
                RecordType(Term("DOMString"), Identifier(NodeName)),
                RecordType(Identifier(UnknownName), Identifier(NodeName))}
          \cup {UnionType(m) : m \in SeqsUpTo(ids, MaxUnion)}

\* The type expressions that name none.
PrimitiveNodes ==
    {Term(t) : t \in Terms}
        \cup {LongLongType(u) : u \in BOOLEAN}
        \cup {LongType(u) : u \in BOOLEAN}
        \cup {ShortType(u) : u \in BOOLEAN}
        \cup {FloatType(u) : u \in BOOLEAN}
        \cup {DoubleType(u) : u \in BOOLEAN}
        \cup {MayBeNull(LongType(FALSE), q) : q \in BOOLEAN}
        \cup {UnionType(<<ShortType(FALSE), MayBeNull(Term("DOMString"), TRUE)>>)}

\* The types to_syn_type is called on: every variant, and Nullable around
\* each of them, twice over.
SynLeaves ==
    PlainLeaves \cup NamedLeaves
        \cup {Wrap(w, Long) : w \in {"FrozenArray", "Sequence", "Promise"}}
        \cup {Record(DomString, Long), Union(<<Short, Long>>)}

SynTypes ==
    SynLeaves \cup {Nullable(t) : t \in SynLeaves}
              \cup {Nullable(Nullable(t)) : t \in SynLeaves}

-----------------------------------------------------------------------------
(* The state machine.                                                      *)

NoType == Void
NoExpr == Term("Void")
NoSymtab == [typedefs |-> <<>>, interfaces |-> {}, dictionaries |-> {}, enums |-> {}]

Init ==
    /\ op = "idle"
    /\ recv = NoType
    /\ arglist = <<>>
    /\ expr = NoExpr
    /\ symtab = NoSymtab
    /\ position = "Argument"
    /\ ret = <<>>

\* idl_type.flatten()
CallIdlTypeFlatten ==
    /\ op = "idle"
    /\ \E t \in FlattenTypes :
          /\ recv' = t
          /\ ret' = IdlType_flatten(t)
    /\ op' = "IdlType::flatten"
    /\ UNCHANGED <<arglist, expr, symtab, position>>

\* flatten(&arguments)
CallFlatten ==
    /\ op = "idle"
    /\ \E a \in ArgLists :
          /\ arglist' = a
          /\ ret' = flatten(a)
    /\ op' = "flatten"
    /\ UNCHANGED <<recv, expr, symtab, position>>

\* idl_type.get_type_name()
CallGetTypeName ==
    /\ op = "idle"
    /\ \E t \in NameTypes :
          /\ recv' = t
          /\ ret' = get_type_name(t)
    /\ op' = "get_type_name"
    /\ UNCHANGED <<arglist, expr, symtab, position>>

\* node.to_idl_type(&record), called from outside: nothing of it is on
\* the stack yet.
CallToIdlType ==
    /\ op = "idle"
    /\ \E n \in IdentifierNodes \cup PrimitiveNodes :
       \E r \in (IF n \in IdentifierNodes THEN Records ELSE {NoSymtab}) :
          /\ expr' = n
          /\ symtab' = r
          /\ ret' = to_idl_type(n, r, 0)
    /\ op' = "to_idl_type"
    /\ UNCHANGED <<recv, arglist, position>>

\* idl_type.to_syn_type(pos)
CallToSynType ==
    /\ op = "idle"
    /\ \E t \in SynTypes : \E p \in TypePositions :
          /\ recv' = t
          /\ position' = p
          /\ ret' = to_syn_type(t, p)
    /\ op' = "to_syn_type"
    /\ UNCHANGED <<arglist, expr, symtab>>

\* The caller drops the arguments and the returned value.
Return ==
    /\ op # "idle"
    /\ op' = "idle"
    /\ recv' = NoType
    /\ arglist' = <<>>
    /\ expr' = NoExpr
    /\ symtab' = NoSymtab
    /\ position' = "Argument"
    /\ ret' = <<>>

Next ==
    \/ CallIdlTypeFlatten
    \/ CallFlatten
    \/ CallGetTypeName
    \/ CallToIdlType
    \/ CallToSynType
    \/ Return

Spec == Init /\ [][Next]_vars

-----------------------------------------------------------------------------
(* Properties of IdlType::flatten.                                         *)

\* No Union variant anywhere in the structure of t.
RECURSIVE UnionFree(_)
UnionFree(t) ==
    /\ t.tag # "Union"
    /\ \A i \in 1..Len(t.args) : UnionFree(t.args[i])

\* Every Union variant in the structure of t has at least one member.
RECURSIVE NoEmptyUnion(_)
NoEmptyUnion(t) ==
    /\ t.tag = "Union" => t.args # <<>>
    /\ \A i \in 1..Len(t.args) : NoEmptyUnion(t.args[i])

Flattened == op = "IdlType::flatten"

\* C1 as stated: for every canonical type, every union whatever its member
\* list included, IdlType::flatten returns a non-empty list none of whose
\* elements contains a Union variant.
C1_FlattenNonEmptyUnionFree ==
    Flattened =>
        /\ Len(ret) > 0
        /\ \A i \in 1..Len(ret) : UnionFree(ret[i])

\* C1 amended: no element of the list IdlType::flatten returns contains a
\* Union variant, and the list is non-empty when every union in the type has
\* at least one member; the union without members flattens to the empty list.
C1_FlattenUnionFreeNonEmptyIfNoEmptyUnion ==
    Flattened =>
        /\ \A i \in 1..Len(ret) : UnionFree(ret[i])
        /\ NoEmptyUnion(recv) => Len(ret) > 0
        /\ recv = Union(<<>>) => ret = <<>>

\* C1 witness: a record with unions of several members inside it has been
\* flattened to several alternatives.
C1_Witness ==
    /\ Flattened
    /\ recv.tag = "Record"
    /\ ~UnionFree(recv)
    /\ NoEmptyUnion(recv)
    /\ Len(ret) > 2

\* C9: for W in Nullable, FrozenArray, Sequence, Promise, flatten(W(t)) is
\* flatten(t) with each element wrapped in W, same length and same order;
\* flatten(Nullable(Union(Short, Long))) = [Nullable(Short), Nullable(Long)].
C9_FlattenDistributesThroughWrappers ==
    /\ (Flattened /\ recv.tag \in WrapperTags) =>
          LET inner == IdlType_flatten(recv.args[1])
          IN  /\ Len(ret) = Len(inner)
              /\ \A i \in 1..Len(inner) :
                    /\ ret[i].tag = recv.tag
                    /\ ret[i].name = NoName
                    /\ ret[i].args = <<inner[i]>>
    /\ (Flattened /\ recv = Nullable(Union(<<Short, Long>>))) =>
          ret = <<Nullable(Short), Nullable(Long)>>

\* C9 witness: a wrapper around a type with several alternatives has been
\* flattened.
C9_Witness ==
    /\ Flattened
    /\ recv.tag = "Sequence"
    /\ recv.args[1].tag = "Union"
    /\ Len(ret) = 2
    /\ ret[1] # ret[2]

\* C10: flatten(Record(k, v)) is the cross product of flatten(k) and
\* flatten(v), the key varying slowest; flatten(Record(Union(Short, Long),
\* Union(Byte, Octet))) = [Record(Short, Byte), Record(Short, Octet),
\* Record(Long, Byte), Record(Long, Octet)].
C10_FlattenRecordCrossProduct ==
    /\ (Flattened /\ recv.tag = "Record") =>
          LET from == IdlType_flatten(recv.args[1])
              to == IdlType_flatten(recv.args[2])
          IN  /\ Len(ret) = Len(from) * Len(to)
              /\ \A i \in 1..Len(from) : \A j \in 1..Len(to) :
                    ret[(i - 1) * Len(to) + j] = Record(from[i], to[j])
    /\ (Flattened /\ recv = Record(Union(<<Short, Long>>), Union(<<Byte, Octet>>))) =>
          ret = << Record(Short, Byte), Record(Short, Octet),
                   Record(Long, Byte), Record(Long, Octet) >>

\* C10 witness: a record whose key and value both have two alternatives has
\* been flattened to four records.
C10_Witness ==
    /\ Flattened
    /\ recv.tag = "Record"
    /\ Len(IdlType_flatten(recv.args[1])) = 2
    /\ Len(IdlType_flatten(recv.args[2])) = 2
    /\ Len(ret) = 4
    /\ ret[2] # ret[3]


-----------------------------------------------------------------------------
(* Properties of flatten, the expansion of an argument list.               *)

Expanded == op = "flatten"

\* The elements of a sequence.
Range(q) == {q[i] : i \in 1..Len(q)}

\* C2 as stated: for every argument list, the optional flags placed anyhow,
\* every signature s of flatten(args) has length k <= n, its i-th type is an
\* element of IdlType::flatten of the i-th argument's type, and every
\* argument after the k-th (an omitted one) is optional.
C2_SignaturesOmitOnlyOptionalArguments ==
    Expanded =>
        \A m \in 1..Len(ret) :
            LET s == ret[m]
            IN  /\ Len(s) <= Len(arglist)
                /\ \A i \in 1..Len(s) :
                      s[i] \in Range(IdlType_flatten(arglist[i][1]))
                /\ \A j \in (Len(s) + 1)..Len(arglist) : arglist[j][2]

\* The argument list and the expected list of arguments_flatten_test.
TestPossibilities ==
    << <<Short>>,
       <<Long>>,
       <<Short, Sequence(Byte)>>,
       <<Short, Sequence(Octet)>>,
       <<Short, LongLong>>,
       <<Long, Sequence(Byte)>>,
       <<Long, Sequence(Octet)>>,
       <<Long, LongLong>>,
       <<Short, Sequence(Byte), DomString>>,
       <<Short, Sequence(Octet), DomString>>,
       <<Short, LongLong, DomString>>,
       <<Long, Sequence(Byte), DomString>>,
       <<Long, Sequence(Octet), DomString>>,
       <<Long, LongLong, DomString>> >>

\* The number of signatures of q that have k types.
CountOfLen(q, k) == Cardinality({m \in 1..Len(q) : Len(q[m]) = k})

\* C3 as stated: expanding the argument list of arguments_flatten_test
\* yields, in order, [Short] and [Long], then the four two-argument
\* signatures, then the six three-argument signatures, fourteen in all, none
\* containing a union.
C3_TestExpansionFourTwoArgument ==
    (Expanded /\ arglist = TestArguments) =>
        /\ Len(ret) = 14
        /\ ret[1] = <<Short>>
        /\ ret[2] = <<Long>>
        /\ CountOfLen(ret, 1) = 2
        /\ CountOfLen(ret, 2) = 4
        /\ CountOfLen(ret, 3) = 6
        /\ \A m \in 1..(Len(ret) - 1) : Len(ret[m]) <= Len(ret[m + 1])
        /\ \A m \in 1..Len(ret) : \A i \in 1..Len(ret[m]) : UnionFree(ret[m][i])

\* C3 amended: expanding the argument list of arguments_flatten_test yields,
\* in order, [Short] and [Long], then the six two-argument signatures, then
\* the six three-argument signatures, fourteen in all, none containing a
\* union: the list the test expects.
C3_TestExpansionSixTwoArgument ==
    (Expanded /\ arglist = TestArguments) =>
        /\ ret = TestPossibilities
        /\ Len(ret) = 14
        /\ CountOfLen(ret, 1) = 2
        /\ CountOfLen(ret, 2) = 6
        /\ CountOfLen(ret, 3) = 6
        /\ \A m \in 1..(Len(ret) - 1) : Len(ret[m]) <= Len(ret[m + 1])
        /\ \A m \in 1..Len(ret) : \A i \in 1..Len(ret[m]) : UnionFree(ret[m][i])

\* C3 witness: the argument list of the test has been expanded.
C3_Witness ==
    /\ Expanded
    /\ arglist = TestArguments
    /\ Len(ret) = 14

\* The optional arguments are all trailing.
TrailingOptional(a) ==
    \A i \in 1..Len(a) : \A j \in i..Len(a) : a[i][2] => a[j][2]

\* The number of required arguments.
Required(a) == Cardinality({i \in 1..Len(a) : ~a[i][2]})

\* The product of the lengths of F[i], ..., F[k].
RECURSIVE Prod(_, _, _)
Prod(F, i, k) == IF i > k THEN 1 ELSE Len(F[i]) * Prod(F, i + 1, k)

\* The cross product of F[1], ..., F[k] in lexicographic order, the leftmost
\* component varying slowest: the m-th tuple by its mixed-radix digits.
CrossProduct(F, k) ==
    [m \in 1..Prod(F, 1, k) |->
        [i \in 1..k |->
            F[i][(((m - 1) \div Prod(F, i + 1, k)) % Len(F[i])) + 1]]]

\* CrossProduct(F, r) \o CrossProduct(F, r + 1) \o ... \o CrossProduct(F, n).
RECURSIVE Blocks(_, _, _)
Blocks(F, r, n) ==
    IF r > n THEN <<>> ELSE CrossProduct(F, r) \o Blocks(F, r + 1, n)

\* C4: for a non-empty argument list whose first r arguments are required
\* and whose other n - r are optional, flatten returns, for k = r, ..., n in
\* that order, the cross product of IdlType::flatten of the first k argument
\* types, each block in lexicographic order, the leftmost argument varying
\* slowest; [(Union(Short, Long), required)] gives [[Short], [Long]].
C4_TrailingOptionalExpansion ==
    /\ (Expanded /\ arglist # <<>> /\ TrailingOptional(arglist)) =>
          LET F == [i \in 1..Len(arglist) |-> IdlType_flatten(arglist[i][1])]
          IN  ret = Blocks(F, Required(arglist), Len(arglist))
    /\ (Expanded /\ arglist = << <<Union(<<Short, Long>>), FALSE>> >>) =>
          ret = << <<Short>>, <<Long>> >>

\* C4 witness: a list of three arguments, the first one optional, with
\* more than one alternative for some argument, has been expanded.
C4_Witness ==
    /\ Expanded
    /\ Len(arglist) = 3
    /\ arglist[1][2]
    /\ TrailingOptional(arglist)
    /\ CountOfLen(ret, 0) = 1
    /\ CountOfLen(ret, 1) = 2
    /\ CountOfLen(ret, 3) > 2


-----------------------------------------------------------------------------
(* Properties of get_type_name.                                            *)

\* C5 as stated: get_type_name is injective on canonical types: two types
\* that differ in structure (variant, nesting order of wrappers, grouping of
\* unions, kind or name of a named leaf) never have the same name.
C5_TypeNamesInjective ==
    op = "get_type_name" =>
        \A other \in NameTypes : get_type_name(other) = ret => other = recv


-----------------------------------------------------------------------------
(* Properties of to_idl_type.                                              *)

Resolved == op = "to_idl_type"

\* C6: an identifier that names a typedef resolves to what the typedef's
\* right-hand side resolves to, even when it also names an interface, a
\* dictionary or an enum; else an interface name resolves to
\* Interface(name), else a dictionary name to Dictionary(name), else an enum
\* name to Enum(name), and a name in none of the four sets resolves to None.
C6_IdentifierPriority ==
    (Resolved /\ expr.kind = "Identifier") =>
        LET name == expr.name
        IN  /\ name \in DOMAIN symtab.typedefs =>
                  /\ ret = to_idl_type(symtab.typedefs[name], symtab, 0)
                  /\ symtab.typedefs[name] = Type(LongType(TRUE)) =>
                        ret = Some(UnsignedLong)
            /\ (name \notin DOMAIN symtab.typedefs /\ name \in symtab.interfaces) =>
                  ret = Some(Interface(name))
            /\ (/\ name \notin DOMAIN symtab.typedefs
                /\ name \notin symtab.interfaces
                /\ name \in symtab.dictionaries) =>
                  ret = Some(Dictionary(name))
            /\ (/\ name \notin DOMAIN symtab.typedefs
                /\ name \notin symtab.interfaces
                /\ name \notin symtab.dictionaries
                /\ name \in symtab.enums) =>
                  ret = Some(Enum(name))
            /\ (/\ name \notin DOMAIN symtab.typedefs
                /\ name \notin symtab.interfaces
                /\ name \notin symtab.dictionaries
                /\ name \notin symtab.enums) =>
                  ret = None

\* C6 witness: a name that is a typedef of an unsigned long and also an
\* interface, a dictionary and an enum has been resolved, to the typedef's
\* type.
C6_Witness ==
    /\ Resolved
    /\ expr = Identifier(NodeName)
    /\ NodeName \in DOMAIN symtab.typedefs
    /\ NodeName \in symtab.interfaces \cap symtab.dictionaries \cap symtab.enums
    /\ ret = Some(UnsignedLong)

\* C7 as stated: the resolution of any type expression against any symbol
\* table, a typedef that names another typedef or itself included, ends with
\* Some(canonical type) or None: it never diverges or aborts.
C7_ResolutionTerminates ==
    Resolved => ret.kind \in {"Some", "None"}


-----------------------------------------------------------------------------
(* Properties of to_syn_type.                                              *)

Mapped == op = "to_syn_type"

\* The variants spec.md lists as having no mapping.
ListedUnmapped ==
    {"FrozenArray", "Sequence", "Promise", "Record", "Union", "Symbol", "Error",
     "DataView"}

\* What the claim says of a call of to_syn_type on recv that returned ret,
\* the variants in unmapped being those without a mapping.
SynTypeNoneExactly(unmapped) ==
    LET inner == to_syn_type(recv.args[1], position)
    IN  /\ ret.kind = "None" <=>
              \/ recv.tag \in unmapped
              \/ recv.tag = "Nullable" /\ inner.kind = "None"
        /\ ret.kind \in {"Some", "None"}
        /\ (recv.tag = "Nullable" /\ inner.kind = "Some") =>
              /\ ret.kind = "Some"
              /\ ret.value.form = "option"
              /\ ret.value.inner = <<inner.value>>

\* C8 as stated: to_syn_type(t, pos) is None, in either position, exactly
\* when t is a frozen array, sequence, promise, record, union, symbol, error
\* or data view, or a Nullable whose inner type has no mapping; every other
\* type maps to Some, and Nullable(inner) to the Option of inner's mapping.
C8_SynTypeNoneExactlyListed ==
    Mapped => SynTypeNoneExactly(ListedUnmapped)

\* C8 amended: to_syn_type(t, pos) is None, in either position, exactly
\* when t is a frozen array, sequence, promise, record, union, symbol,
\* error, data view or void, or a Nullable whose inner type has no mapping;
\* every other type maps to Some, and Nullable(inner) to the Option of
\* inner's mapping.
C8_SynTypeNoneExactlyListedOrVoid ==
    Mapped => SynTypeNoneExactly(ListedUnmapped \cup {"Void"})

\* C8 witness: a Nullable around a Nullable around a type without a
\* mapping has been mapped, to None.
C8_Witness ==
    /\ Mapped
    /\ recv.tag = "Nullable"
    /\ recv.args[1].tag = "Nullable"
    /\ recv.args[1].args[1].tag = "Sequence"
    /\ position = "Return"
    /\ ret.kind = "None"


-----------------------------------------------------------------------------
(* Further properties of IdlType::flatten.                                 *)

\* The sum of the lengths of the first k lists of flats.
RECURSIVE LenUpTo(_, _)
LenUpTo(flats, k) ==
    IF k = 0 THEN 0 ELSE LenUpTo(flats, k - 1) + Len(flats[k])

\* The list idl_type_flatten_test expects.
TestFlattened ==
    << Interface(NodeName),
       Sequence(Long),
       Interface(EventName),
       Nullable(Interface(XMLHttpRequestName)),
       Nullable(DomString),
       Sequence(Sequence(Double)),
       Sequence(Interface(NodeListName)) >>

\* C11: flatten(Union([m1, ..., mn])) is flatten(m1) ++ ... ++ flatten(mn)
\* in the order of the members, without a cross product: the j-th
\* alternative of the i-th member stands right after all alternatives of the
\* members before it; the union of idl_type_flatten_test (leaves, a nested
\* union, a nullable of a union, a sequence of a union) flattens to the
\* left-to-right list of union-free alternatives the test expects.
C11_FlattenUnionConcatenates ==
    /\ (Flattened /\ recv.tag = "Union") =>
          LET flats == [i \in 1..Len(recv.args) |-> IdlType_flatten(recv.args[i])]
          IN  /\ Len(ret) = LenUpTo(flats, Len(flats))
              /\ \A i \in 1..Len(flats) : \A j \in 1..Len(flats[i]) :
                    ret[LenUpTo(flats, i - 1) + j] = flats[i][j]
    /\ (Flattened /\ recv = TestUnion) => ret = TestFlattened

\* C11 witness: the union of idl_type_flatten_test has been flattened to
\* its seven alternatives.
C11_Witness ==
    /\ Flattened
    /\ recv = TestUnion
    /\ Len(recv.args) = 4
    /\ Len(ret) = 7


-----------------------------------------------------------------------------
(* Further properties of to_idl_type.                                      *)

\* C12 as stated: resolving a union type expression yields None if any
\* member resolves to None, and otherwise yields Union of the resolved
\* members in source order, with as many members as the source union.
C12_UnionResolvesMemberwise ==
    (Resolved /\ expr.kind = "UnionType") =>
        LET members == [i \in 1..Len(expr.body) |->
                           to_idl_type(expr.body[i], symtab, 0)]
        IN  IF \E i \in 1..Len(members) : members[i].kind = "None"
            THEN ret = None
            ELSE /\ ret.kind = "Some"
                 /\ ret.value.tag = "Union"
                 /\ Len(ret.value.args) = Len(expr.body)
                 /\ \A i \in 1..Len(members) :
                       /\ members[i].kind = "Some"
                       /\ ret.value.args[i] = members[i].value


-----------------------------------------------------------------------------
(* IdlType::flatten on the types it returns.                               *)

\* C13: IdlType::flatten is idempotent on its own output: every element x of
\* flatten(t) flattens to the singleton list [x]; equivalently, a type t
\* that contains no Union anywhere flattens to [t].
C13_FlattenIdempotent ==
    Flattened =>
        /\ \A i \in 1..Len(ret) : IdlType_flatten(ret[i]) = <<ret[i]>>
        /\ UnionFree(recv) => ret = <<recv>>

\* C13 witness: a record with a union for its key and a generic for its
\* value has been flattened to two records, each of which flattens to
\* itself alone.
C13_Witness ==
    /\ Flattened
    /\ recv.tag = "Record"
    /\ recv.args[1].tag = "Union"
    /\ recv.args[2].tag \in WrapperTags
    /\ Len(ret) = 2
    /\ ret[1] # ret[2]
    /\ ret[1].args[2].tag \in WrapperTags
    /\ IdlType_flatten(ret[1]) = <<ret[1]>>
    /\ IdlType_flatten(ret[2]) = <<ret[2]>>


=============================================================================
